---- MODULE Spec2Model ----
(***************************************************************************)
(* Model of the reconciliation-and-installation engine `Fin`               *)
(* (src/src/core.rs) and its lock store (src/src/lock.rs).                 *)
(*                                                                         *)
(* Strings the code takes apart (plugin specs, names) are sequences of     *)
(* one-character strings, so that split('@') and split('/') are computed.  *)
(* An Option<T> is a set with at most one element: None is {} and Some(x)  *)
(* is {x}.  A file of the installation tree is <<component, file name>>.   *)
(*                                                                         *)
(* Spec is the engine given plain owner/repo strings and names; SpecAny is *)
(* the engine given spec strings of any shape; SpecStore is the lock store *)
(* alone, saving and loading LockStates of any content.                    *)
(***************************************************************************)
EXTENDS Integers, Sequences, FiniteSets, TLC

VARIABLES
    installed_plugins,  \* Fin.installed_plugins : HashSet<String>
    plugin_files,       \* Fin.plugin_files : HashMap<String, Vec<PathBuf>>
    lock_file,          \* Fin.lock_file : LockFile (in memory)
    disk_lock,          \* the file fin-lock.toml: {} when absent, {content} when present
    fs_files,           \* destination files present in the installation tree
    last,               \* what the last top-level operation did and printed
    last_written,       \* per plugin name, the files its last successful install wrote
    nops                \* number of top-level operations so far (also the clock)

vars == <<installed_plugins, plugin_files, lock_file, disk_lock, fs_files,
          last, last_written, nops>>

----------------------------------------------------------------------------
(* Bounds *)

MaxOps == 3
MaxDesired == 3
MaxNames == 2
MaxAny == 2
MaxAnyOps == 2
MaxStored == 2

----------------------------------------------------------------------------
(* Strings *)

None == {}
Some(x) == {x}

HEAD == <<"H", "E", "A", "D">>

RECURSIVE SplitFrom(_, _, _, _, _)
SplitFrom(s, c, i, cur, acc) ==
    IF i > Len(s) THEN Append(acc, cur)
    ELSE IF s[i] = c THEN SplitFrom(s, c, i + 1, <<>>, Append(acc, cur))
    ELSE SplitFrom(s, c, i + 1, Append(cur, s[i]), acc)

\* str::split(c): the pieces between the occurrences of c; never empty.
Split(s, c) == SplitFrom(s, c, 1, <<>>, <<>>)

SeqToSet(s) == {s[i] : i \in 1..Len(s)}

----------------------------------------------------------------------------
(* The world outside the engine *)

Components == <<"functions", "conf.d", "completions">>

SpecA == <<"o", "/", "a">>
SpecB == <<"o", "/", "b">>
SpecC == <<"o", "/", "c">>
SpecStrings == {SpecA, SpecB, SpecC}

ArchiveUrl(repo, ref_name) ==
    <<"https://github.com/">> \o repo \o <<"/archive/">> \o ref_name \o <<".tar.gz">>

FileA == <<"functions", "a.fish">>
FileK == <<"conf.d", "k.fish">>
FileT == <<"themes", "t.theme">>

\* The trees the remote repositories hold, each in directory-listing order.
\* Any other URL has no archive behind it.
HasRemote(source) ==
    source \in {ArchiveUrl(SpecA, HEAD), ArchiveUrl(SpecB, HEAD), ArchiveUrl(SpecC, HEAD)}

RemoteTree(source) ==
    CASE source = ArchiveUrl(SpecA, HEAD) -> <<FileA, FileK>>
      [] source = ArchiveUrl(SpecB, HEAD) -> <<FileK, FileT>>
      [] source = ArchiveUrl(SpecC, HEAD) -> <<FileT>>
      [] OTHER -> <<>>

\* Spec strings of other shapes: a ref given after '@', no name before the first
\* '@', and paths of local directories.
SpecAHead == SpecA \o <<"@">> \o HEAD
SpecEmpty == <<>>
SpecSlash == <<"o", "/">>
SpecP == <<"p">>
SpecDQ == <<"d", "/", "q">>
AnySpecStrings == {SpecA, SpecAHead, SpecEmpty, SpecSlash, SpecP, SpecDQ}

FileP == <<"functions", "p.fish">>
FileQ == <<"functions", "q.fish">>

\* Paths that exist relative to the working directory, with their trees: the
\* directories p and d/q; there is no q in the working directory itself.
LocalDirs == {SpecP, SpecDQ}

LocalTree(path) ==
    CASE path = SpecP -> <<FileP>>
      [] path = SpecDQ -> <<FileQ>>
      [] OTHER -> <<>>

----------------------------------------------------------------------------
(* lock.rs *)

Plugin(name, source) ==
    [name |-> name, source |-> source, commit_hash |-> None, branch |-> None,
     installed_files |-> None, checksum |-> None]

PluginEq(p, q) == p.name = q.name /\ p.commit_hash = q.commit_hash

Contains(plugins, p) == \E i \in 1..Len(plugins) : PluginEq(plugins[i], p)

\* diff as it would be if every desired plugin were installed again.
diff_force(plugins, other) == plugins

diff(plugins, other) ==
    LET keep(p) == ~Contains(other, p) IN SelectSeq(plugins, keep)

LockNames(plugins) == {plugins[i].name : i \in 1..Len(plugins)}

\* The destination paths in ascending string order ("conf.d/k.fish" <
\* "functions/a.fish" < "functions/p.fish" < "functions/q.fish").
PathOrder == <<FileK, FileA, FileP, FileQ>>

PathRank(f) == CHOOSE i \in 1..Len(PathOrder) : PathOrder[i] = f

Ascending(s) == \A i \in 1..(Len(s) - 1) : PathRank(s[i]) < PathRank(s[i + 1])

\* The elements of a HashSet in the reverse of their order: one of the orders in
\* which it may be iterated.
ReverseVec(S) ==
    CHOOSE s \in [1..Cardinality(S) -> S] :
      \A i \in 1..(Len(s) - 1) : PathRank(s[i]) > PathRank(s[i + 1])

\* lock.rs:64-65: the elements of the HashSet collected into a Vec and sorted.
SortedVec(S) == CHOOSE s \in [1..Cardinality(S) -> S] : Ascending(s)

\* A TOML table is a function from the keys that are present to their values.
NoEntry == [k \in {} |-> <<>>]

\* A field of type Option<String>: toml leaves out a None.
OptionEntry(key, opt) ==
    IF opt = None THEN NoEntry ELSE key :> (CHOOSE x \in opt : TRUE)

\* lock.rs:55-70
serialize_option_hashset_sorted(key, opt_hashset) ==
    IF opt_hashset = None THEN NoEntry
    ELSE key :> SortedVec(CHOOSE hashset \in opt_hashset : TRUE)

\* #[derive(Serialize)] of Plugin, as toml writes it
SerializePlugin(p) ==
    ("name" :> p.name) @@ ("source" :> p.source)
      @@ OptionEntry("commit_hash", p.commit_hash)
      @@ OptionEntry("branch", p.branch)
      @@ serialize_option_hashset_sorted("installed_files", p.installed_files)
      @@ OptionEntry("checksum", p.checksum)

OptionField(t, key) == IF key \in DOMAIN t THEN Some(t[key]) ELSE None

\* #[derive(Deserialize)] of Plugin: an absent key of an Option field is None,
\* the array of installed_files becomes a HashSet.
DeserializePlugin(t) ==
    [name |-> t["name"], source |-> t["source"],
     commit_hash |-> OptionField(t, "commit_hash"),
     branch |-> OptionField(t, "branch"),
     installed_files |-> IF "installed_files" \in DOMAIN t
                         THEN Some(SeqToSet(t["installed_files"])) ELSE None,
     checksum |-> OptionField(t, "checksum")]

\* toml::to_string_pretty of a LockFile (lock.rs:96)
Serialize(lf) ==
    [version |-> lf.version, generated_at |-> lf.generated_at,
     plugins |-> [i \in 1..Len(lf.plugins) |-> SerializePlugin(lf.plugins[i])]]

\* toml::from_str of the text of a LockFile (lock.rs:82)
Deserialize(doc) ==
    [version |-> doc.version, generated_at |-> doc.generated_at,
     plugins |-> [i \in 1..Len(doc.plugins) |-> DeserializePlugin(doc.plugins[i])]]

\* What the file fin-lock.toml may hold: the text of a LockFile, a text that is
\* not one, or bytes that are not UTF-8.
LockText(doc) == [kind |-> "lock", doc |-> doc]
NoDoc == [version |-> "", generated_at |-> 0, plugins |-> <<>>]
GarbageText == [kind |-> "garbage", doc |-> NoDoc]
BinaryBytes == [kind |-> "binary", doc |-> NoDoc]

DefaultLockFile(now) == [version |-> "1.0", generated_at |-> now, plugins |-> <<>>]

\* LockFile::load: any failure of fs::read_to_string gives the default LockFile;
\* a text that was read and does not parse is an error.
LockFile_load(disk, now) ==
    IF disk = {} THEN [ok |-> TRUE, how |-> "default", lf |-> DefaultLockFile(now)]
    ELSE LET content == CHOOSE c \in disk : TRUE
         IN CASE content.kind = "binary" ->
                   [ok |-> TRUE, how |-> "default", lf |-> DefaultLockFile(now)]
              [] content.kind = "garbage" ->
                   [ok |-> FALSE, how |-> "failed", lf |-> DefaultLockFile(now)]
              [] OTHER ->
                   [ok |-> TRUE, how |-> "parsed", lf |-> Deserialize(content.doc)]

\* LockFile::save: the file afterwards
LockFile_save(lf) == {LockText(Serialize(lf))}

\* impl From<&str> for Plugin (lock.rs:39-53); nothing in the engine calls it.
Plugin_from(s) ==
    LET parts == Split(s, "@")
        repo == parts[1]
        ref_name == IF Len(parts) > 1 THEN parts[2] ELSE HEAD
    IN Plugin(repo, ArchiveUrl(repo, ref_name))

----------------------------------------------------------------------------
(* core.rs: parse_plugin *)

\* ParseOne as it would be if a spec string without '@' got no ref at all.
ParseOne_NoDefaultRef(spec) ==
    LET parts == Split(spec, "@")
        repo == parts[1]
        ref_name == IF Len(parts) > 1 THEN parts[2] ELSE <<>>
        segs == Split(repo, "/")
        repo_name == segs[Len(segs)]
    IN Plugin(repo_name, ArchiveUrl(repo, ref_name))

ParseOne(spec) ==
    LET parts == Split(spec, "@")
        repo == parts[1]
        ref_name == IF Len(parts) > 1 THEN parts[2] ELSE HEAD
        segs == Split(repo, "/")
        repo_name == segs[Len(segs)]
    IN Plugin(repo_name, ArchiveUrl(repo, ref_name))

parse_plugin(specs) == [i \in 1..Len(specs) |-> ParseOne(specs[i])]

\* core.rs:270-273: the parse fails when split('/').last() is None, that is when
\* the split yields no piece at all.
ParseFails(spec) == Split(Split(spec, "@")[1], "/") = <<>>

----------------------------------------------------------------------------
(* core.rs: the engine.  An engine state st is a record                     *)
(*   ip: installed_plugins, pf: plugin_files, lf: lock_file (memory),       *)
(*   disk: the lock file on disk, fs: the installation tree,                *)
(*   lw: the files written by each plugin's last successful install.        *)

EmptyMap == [n \in {} |-> <<>>]

MapPut(m, k, v) == [n \in DOMAIN m \cup {k} |-> IF n = k THEN v ELSE m[n]]

MapDel(m, k) == [n \in DOMAIN m \ {k} |-> m[n]]

Prefix(s, n) == SubSeq(s, 1, n)

\* Fin::fetch_plugin: a local copy when a path named like the plugin exists,
\* a download of plugin.source otherwise.  net_ok is whether the transfer works.
fetch_plugin(plugin, net_ok) ==
    IF plugin.name \in LocalDirs
    THEN [ok |-> net_ok, name |-> plugin.name, source |-> plugin.source,
          method |-> "copy", tree |-> LocalTree(plugin.name)]
    ELSE [ok |-> net_ok /\ HasRemote(plugin.source), name |-> plugin.name,
          source |-> plugin.source, method |-> "download",
          tree |-> RemoteTree(plugin.source)]

CanFetch(plugin) == plugin.name \in LocalDirs \/ HasRemote(plugin.source)

RECURSIVE InstallListFrom(_, _)
InstallListFrom(tree, c) ==
    IF c > Len(Components) THEN <<>>
    ELSE LET inComp(f) == f[1] = Components[c]
         IN SelectSeq(tree, inComp) \o InstallListFrom(tree, c + 1)

\* The destination files install_plugin_files copies, in the order it copies them.
InstallList(tree) == InstallListFrom(tree, 1)

\* Fin::install_plugin_files; fail_at = k > 0: the copy of the k-th file fails.
install_plugin_files(st, plugin, tree, fail_at) ==
    LET files == InstallList(tree) IN
    IF fail_at > 0 /\ fail_at <= Len(files)
    THEN [ok |-> FALSE,
          st |-> [st EXCEPT !.fs = @ \cup SeqToSet(Prefix(files, fail_at - 1))]]
    ELSE [ok |-> TRUE,
          st |-> [st EXCEPT !.fs = @ \cup SeqToSet(files),
                            !.pf = MapPut(@, plugin, files),
                            !.lw = MapPut(@, plugin, SeqToSet(files))]]

\* core.rs:94, the record pushed for the i-th result.
InstalledRecord(plugins, plugins_to_install, i) == plugins[i]

\* The steps of an install in the order in which they are done: a fetch
\* completed, the copy of a plugin's files returned, a name went into
\* installed_plugins, a record was pushed onto lock_file.plugins, the lock file
\* was written.
Event(kind, name) == [kind |-> kind, name |-> name]

NoOut ==
    [printed |-> <<>>, failed |-> {}, succeeded |-> {}, copy_failed |-> FALSE,
     pushed |-> <<>>, processed |-> 0, events |-> <<>>]

\* core.rs:84-87: the fetches run in parallel and complete in the order `order`;
\* none of them can write to the engine (fetch_plugin takes &self), and collect()
\* puts the result of the i-th candidate at index i.
RECURSIVE ParCollect(_, _, _, _, _)
ParCollect(cand, net, order, k, acc) ==
    IF k > Len(cand) THEN acc
    ELSE LET i == order[k]
             r == fetch_plugin(cand[i], net[i])
         IN ParCollect(cand, net, order, k + 1,
                       [slots |-> [acc.slots EXCEPT ![i] = Some(r)],
                        events |-> Append(acc.events, Event("fetch", r.name))])

RECURSIVE InstallLoop(_, _, _, _, _, _, _)
InstallLoop(st, plugins, cand, results, fault, i, out) ==
    IF i > Len(results) THEN [st |-> st, out |-> out]
    ELSE IF ~results[i].ok
    THEN InstallLoop(st, plugins, cand, results, fault, i + 1,
                     [out EXCEPT !.failed = @ \cup {results[i].name},
                                 !.processed = i])
    ELSE LET name == results[i].name
             r == install_plugin_files(st, name, results[i].tree,
                                       IF fault[1] = i THEN fault[2] ELSE 0)
         IN IF ~r.ok
            THEN [st |-> r.st,
                  out |-> [out EXCEPT !.failed = @ \cup {name},
                                      !.copy_failed = TRUE, !.processed = i,
                                      !.events = Append(@, Event("install", name))]]
            ELSE LET rec == InstalledRecord(plugins, cand, i)
                     st2 == [r.st EXCEPT !.ip = @ \cup {name},
                                         !.lf.plugins = Append(@, rec)]
                 IN InstallLoop(st2, plugins, cand, results, fault, i + 1,
                                [out EXCEPT !.printed = Append(@, name),
                                            !.succeeded = @ \cup {name},
                                            !.pushed = Append(@, rec),
                                            !.processed = i,
                                            !.events = @ \o <<Event("install", name),
                                                               Event("insert", name),
                                                               Event("push", rec.name)>>])

\* core.rs:102-104: the save that ends an install whose loop ran to its end.
InstallEnd(l, results, cand) ==
    IF l.out.copy_failed
    THEN [st |-> l.st, result |-> "Err", nothing_to_do |-> FALSE,
          fetched |-> results, saves |-> 0, candidates |-> cand, out |-> l.out]
    ELSE [st |-> [l.st EXCEPT !.disk = LockFile_save(l.st.lf)],
          result |-> "Ok", nothing_to_do |-> FALSE,
          fetched |-> results, saves |-> 1, candidates |-> cand,
          out |-> [l.out EXCEPT !.events = Append(@, Event("save", <<>>))]]

\* Fin::install
install(st, specs, net, fault, order) ==
    LET plugins == parse_plugin(specs)
        plugins_to_install == diff(plugins, st.lf.plugins)
    IN IF \E i \in 1..Len(specs) : ParseFails(specs[i])
       THEN [st |-> st, result |-> "Err", nothing_to_do |-> FALSE, fetched |-> <<>>,
             saves |-> 0, candidates |-> <<>>, out |-> NoOut]
       ELSE IF plugins_to_install = <<>>
       THEN [st |-> st, result |-> "Ok", nothing_to_do |-> TRUE, fetched |-> <<>>,
             saves |-> 0, candidates |-> <<>>, out |-> NoOut]
       ELSE LET par == ParCollect(plugins_to_install, net, order, 1,
                                   [slots |-> [i \in 1..Len(plugins_to_install) |-> None],
                                    events |-> <<>>])
                results == [i \in 1..Len(plugins_to_install) |->
                               CHOOSE r \in par.slots[i] : TRUE]
            IN InstallEnd(InstallLoop(st, plugins, plugins_to_install, results,
                                      fault, 1, [NoOut EXCEPT !.events = par.events]),
                          results, plugins_to_install)

\* core.rs:198-202, the deletion of one plugin's recorded files, in order; a file
\* of `undeletable` that exists makes fs::remove_file fail and ends the loop.
RECURSIVE RemoveFiles(_, _, _, _, _)
RemoveFiles(fs, files, undeletable, k, deleted) ==
    IF k > Len(files) THEN [ok |-> TRUE, fs |-> fs, deleted |-> deleted]
    ELSE IF files[k] \notin fs
    THEN RemoveFiles(fs, files, undeletable, k + 1, deleted)
    ELSE IF files[k] \in undeletable
    THEN [ok |-> FALSE, fs |-> fs, deleted |-> deleted]
    ELSE RemoveFiles(fs \ {files[k]}, files, undeletable, k + 1,
                     deleted \cup {files[k]})

NoRemoveOut ==
    [removed |-> <<>>, not_installed |-> <<>>, deleted |-> {}, failed |-> FALSE]

\* core.rs:196-208, the turn of a name that is installed.
RemoveInstalled(st, plugin, undeletable, out) ==
    LET files == IF plugin \in DOMAIN st.pf THEN st.pf[plugin] ELSE <<>>
        d == RemoveFiles(st.fs, files, undeletable, 1, {})
    IN IF ~d.ok
       THEN [st |-> [st EXCEPT !.fs = d.fs],
             out |-> [out EXCEPT !.deleted = @ \cup d.deleted, !.failed = TRUE]]
       ELSE [st |-> [st EXCEPT !.fs = d.fs, !.ip = @ \ {plugin},
                               !.pf = MapDel(@, plugin)],
             out |-> [out EXCEPT !.deleted = @ \cup d.deleted,
                                 !.removed = Append(@, plugin)]]

\* RemoveOne as it would be if a name that is not installed were an error that
\* ends the batch.
RemoveOne_UnknownIsError(st, plugin, undeletable, out) ==
    IF plugin \in st.ip
    THEN RemoveInstalled(st, plugin, undeletable, out)
    ELSE [st |-> st, out |-> [out EXCEPT !.not_installed = Append(@, plugin),
                                         !.failed = TRUE]]

\* core.rs:195-211, one turn of the loop of Fin::remove.
RemoveOne(st, plugin, undeletable, out) ==
    IF plugin \in st.ip
    THEN RemoveInstalled(st, plugin, undeletable, out)
    ELSE [st |-> st, out |-> [out EXCEPT !.not_installed = Append(@, plugin)]]

\* core.rs:194, the loop; an error of a turn ends it (the ? of core.rs:200).
RECURSIVE RemoveLoop(_, _, _, _)
RemoveLoop(s, plugins, undeletable, i) ==
    IF i > Len(plugins) \/ s.out.failed THEN s
    ELSE RemoveLoop(RemoveOne(s.st, plugins[i], undeletable, s.out),
                    plugins, undeletable, i + 1)

\* core.rs:214-216: nothing is saved after the loop.
RemoveEnd(l) ==
    [st |-> l.st, result |-> IF l.out.failed THEN "Err" ELSE "Ok",
     saves |-> 0, out |-> l.out]

\* Fin::remove; the save after the loop is commented out (core.rs:214).
remove(st, plugins, undeletable) ==
    RemoveEnd(RemoveLoop([st |-> st, out |-> NoRemoveOut], plugins, undeletable, 1))

\* PluginsToUpdate as it would be if the given names were taken as they are.
PluginsToUpdate_Unfiltered(st, plugins, order) ==
    IF plugins = <<>> THEN order ELSE plugins

\* core.rs:221-231; `order` is the iteration order of the HashSet.
PluginsToUpdate(st, plugins, order) ==
    IF plugins = <<>> THEN order
    ELSE LET isInstalled(p) == p \in st.ip IN SelectSeq(plugins, isInstalled)

\* The outcome of an install that did not run.
NoInstall(st) ==
    [st |-> st, result |-> "Ok", nothing_to_do |-> FALSE, fetched |-> <<>>,
     saves |-> 0, candidates |-> <<>>, out |-> NoOut]

\* Fin::update
update(st, plugins, order, undeletable, net, fault, done) ==
    LET plugins_to_update == PluginsToUpdate(st, plugins, order)
    IN IF plugins_to_update = <<>>
       THEN [st |-> st, result |-> "Ok", to_update |-> <<>>, rm |-> NoRemoveOut,
             ins |-> NoInstall(st)]
       ELSE LET r == remove(st, plugins_to_update, undeletable)
            IN IF r.result = "Err"
               THEN [st |-> r.st, result |-> "Err", to_update |-> plugins_to_update,
                     rm |-> r.out, ins |-> NoInstall(r.st)]
               ELSE LET n == install(r.st, plugins_to_update, net, fault, done)
                    IN [st |-> n.st, result |-> n.result,
                        to_update |-> plugins_to_update, rm |-> r.out, ins |-> n]

\* Fin::new: a process starts and loads the lock file.
new(disk, fs, lw, now) ==
    LET l == LockFile_load(disk, now)
    IN [ok |-> l.ok, how |-> l.how,
        st |-> [ip |-> LockNames(l.lf.plugins), pf |-> EmptyMap, lf |-> l.lf,
                disk |-> disk, fs |-> fs, lw |-> lw]]

----------------------------------------------------------------------------
(* Inputs *)

Names == {ParseOne(s).name : s \in SpecStrings}

DestFiles == UNION {SeqToSet(InstallList(RemoteTree(ParseOne(s).source))) : s \in SpecStrings}

Injective(s) == \A i, j \in 1..Len(s) : s[i] = s[j] => i = j

SeqsUpTo(S, n) == UNION {[1..k -> S] : k \in 0..n}

\* The desired lists given to Install: no spec twice.
DesiredLists == {s \in SeqsUpTo(SpecStrings, MaxDesired) : Injective(s)}

\* The lists of spec strings of any shape given to Install.
AnyLists == {s \in SeqsUpTo(AnySpecStrings, MaxAny) : Injective(s)}

\* The name lists given to Remove and Update.
NameLists == SeqsUpTo(Names, MaxNames)

\* The orders in which a HashSet may be iterated.
Orders(S) == {s \in [1..Cardinality(S) -> S] : Injective(s)}

\* The completion order in which the i-th fetch is the i-th to complete.
InOrder == [i \in 1..(MaxDesired + MaxAny) |-> i]

\* At most one file of the tree refuses deletion.
Undeletables == {{}} \cup {{f} : f \in fs_files}

\* Which transfers work: only those that can.
NetChoices(cand) ==
    {net \in [1..Len(cand) -> BOOLEAN] : \A i \in 1..Len(cand) : net[i] => CanFetch(cand[i])}

\* At most one copy fails: <<i, k>> is the k-th file of the i-th candidate.
FaultChoices(cand, net) ==
    {<<0, 0>>} \cup
    UNION {{<<i, k>> : k \in 1..Len(InstallList(fetch_plugin(cand[i], TRUE).tree))} :
             i \in {j \in 1..Len(cand) : net[j]}}

----------------------------------------------------------------------------
(* The state machine *)

\* The plugins the install inside an update has to fetch.
UpdateCandidates(st, tu, undeletable) ==
    LET r == remove(st, tu, undeletable)
    IN IF r.result = "Err" THEN <<>>
       ELSE diff(parse_plugin(tu), r.st.lf.plugins)

EngineState ==
    [ip |-> installed_plugins, pf |-> plugin_files, lf |-> lock_file,
     disk |-> disk_lock, fs |-> fs_files, lw |-> last_written]

\* What an install reported: the fields of its outcome but the state.
InsView(n) ==
    [nothing_to_do |-> n.nothing_to_do, candidates |-> n.candidates,
     fetched |-> n.fetched, saves |-> n.saves, printed |-> n.out.printed,
     failed |-> n.out.failed, succeeded |-> n.out.succeeded,
     pushed |-> n.out.pushed, copy_failed |-> n.out.copy_failed,
     processed |-> n.out.processed, events |-> n.out.events]

NoLast ==
    [op |-> "new", args |-> <<>>, result |-> "Ok", pre |-> {},
     ins |-> InsView(NoInstall({})), rm |-> NoRemoveOut, to_update |-> <<>>,
     saves |-> 0, undeletable |-> {}, load |-> "default", net |-> <<>>,
     fault |-> <<0, 0>>, done |-> <<>>]

\* `last` keeps the whole report only of an operation that is examined, which is
\* then the last one of the run; of any other operation it keeps the name.  Every
\* operation from every reachable state is examined in some run.
Report(examined, r) == IF examined THEN r ELSE [NoLast EXCEPT !.op = r.op]

\* A process is there and may be given a further operation.
Running ==
    /\ nops < MaxOps
    /\ last.pre = {}
    /\ last.result = "Ok"
    /\ last.op # "damage"

Commit(st) ==
    /\ installed_plugins' = st.ip
    /\ plugin_files' = st.pf
    /\ lock_file' = st.lf
    /\ disk_lock' = st.disk
    /\ fs_files' = st.fs
    /\ last_written' = st.lw
    /\ nops' = nops + 1

Init ==
    \E st \in {new({}, {}, EmptyMap, 0).st} :
      /\ installed_plugins = st.ip
      /\ plugin_files = st.pf
      /\ lock_file = st.lf
      /\ disk_lock = st.disk
      /\ fs_files = st.fs
      /\ last_written = st.lw
      /\ last = NoLast
      /\ nops = 0

\* Fin::install called with one of `lists`.
InstallFrom(lists) ==
    /\ Running
    /\ \E specs \in lists :
        \E cand \in {diff(parse_plugin(specs), lock_file.plugins)} :
         \E net \in NetChoices(cand) :
          \E fault \in FaultChoices(cand, net) :
           \E done \in Orders(1..Len(cand)) :
            \E n \in {install(EngineState, specs, net, fault, done)} :
              /\ Commit(n.st)
              /\ \E examined \in BOOLEAN :
                   last' = Report(examined,
                                  [op |-> "install", args |-> specs, result |-> n.result,
                                   pre |-> {EngineState}, ins |-> InsView(n),
                                   rm |-> NoRemoveOut, to_update |-> <<>>,
                                   saves |-> n.saves, undeletable |-> {},
                                   load |-> NoLast.load, net |-> net, fault |-> fault,
                                   done |-> done])

Install == InstallFrom(DesiredLists)

Remove ==
    /\ Running
    /\ \E plugins \in NameLists, undeletable \in Undeletables :
        \E r \in {remove(EngineState, plugins, undeletable)} :
         /\ Commit(r.st)
         /\ \E examined \in BOOLEAN :
              last' = Report(examined,
                             [op |-> "remove", args |-> plugins, result |-> r.result,
                              pre |-> {EngineState}, ins |-> InsView(NoInstall({})),
                              rm |-> r.out, to_update |-> <<>>, saves |-> r.saves,
                              undeletable |-> undeletable, load |-> NoLast.load,
                              net |-> <<>>, fault |-> NoLast.fault, done |-> <<>>])

Update ==
    /\ Running
    /\ \E plugins \in NameLists :
        \E order \in IF plugins = <<>> THEN Orders(installed_plugins) ELSE {<<>>} :
         \E tu \in {PluginsToUpdate(EngineState, plugins, order)} :
          \E undeletable \in IF tu = <<>> THEN {{}} ELSE Undeletables :
           \E cand \in {IF tu = <<>> THEN <<>>
                        ELSE UpdateCandidates(EngineState, tu, undeletable)} :
            \E net \in NetChoices(cand) :
             \E fault \in FaultChoices(cand, net) :
              \E done \in Orders(1..Len(cand)) :
               \E u \in {update(EngineState, plugins, order, undeletable, net, fault,
                                 done)} :
                /\ Commit(u.st)
                /\ \E examined \in BOOLEAN :
                     last' = Report(examined,
                                    [op |-> "update", args |-> plugins,
                                     result |-> u.result, pre |-> {EngineState},
                                     ins |-> InsView(u.ins), rm |-> u.rm,
                                     to_update |-> u.to_update, saves |-> u.ins.saves,
                                     undeletable |-> undeletable, load |-> NoLast.load,
                                     net |-> net, fault |-> fault, done |-> done])

\* The process ends and a new one starts: Fin::new.
\* When the load fails there is no Fin: the run ends, and the engine variables
\* hold nothing of interest.
Restart ==
    /\ nops < MaxOps
    /\ last.pre = {}
    /\ last.op # "new"
    /\ \E n \in {new(disk_lock, fs_files, last_written, nops + 1)} :
         /\ Commit(n.st)
         /\ last' = [NoLast EXCEPT !.load = n.how,
                                   !.result = IF n.ok THEN "Ok" ELSE "Err"]

\* Between two processes the lock file is replaced, from outside, by something
\* that is not the text of a LockFile.
Damage ==
    /\ nops < MaxOps
    /\ last.pre = {}
    /\ \E c \in disk_lock : c.kind = "lock"
    /\ \E content \in {GarbageText, BinaryBytes} : disk_lock' = {content}
    /\ last' = [NoLast EXCEPT !.op = "damage"]
    /\ UNCHANGED <<installed_plugins, plugin_files, lock_file, fs_files,
                   last_written, nops>>

Next == Install \/ Remove \/ Update \/ Restart \/ Damage

Spec == Init /\ [][Next]_vars

\* The lock store alone: LockFile::save and LockFile::load applied to LockStates
\* of any content.
StoredPlugins ==
    {[Plugin(n, ParseOne(<<"o", "/">> \o n).source)
        EXCEPT !.commit_hash = pin[1], !.branch = pin[2], !.checksum = pin[3],
               !.installed_files = files] :
       n \in {<<"a">>, <<"b">>},
       pin \in {<<None, None, None>>, <<Some("c0ffee"), Some("main"), Some("x1")>>},
       files \in {None, Some({}), Some({FileA}), Some({FileA, FileK}),
                  Some({FileP, FileK, FileA})}}

StoredLockFiles ==
    [version : {"1.0"}, generated_at : {0, 1},
     plugins : SeqsUpTo(StoredPlugins, MaxStored)]

InitStore ==
    /\ lock_file \in StoredLockFiles
    /\ installed_plugins = LockNames(lock_file.plugins)
    /\ plugin_files = EmptyMap
    /\ disk_lock = {}
    /\ fs_files = {}
    /\ last_written = EmptyMap
    /\ last = NoLast
    /\ nops = 0

StoreSave ==
    /\ nops < MaxOps
    /\ disk_lock' = LockFile_save(lock_file)
    /\ last' = [NoLast EXCEPT !.op = "save"]
    /\ nops' = nops + 1
    /\ UNCHANGED <<installed_plugins, plugin_files, lock_file, fs_files, last_written>>

StoreLoad ==
    /\ nops < MaxOps
    /\ last.op = "save"
    /\ \E l \in {LockFile_load(disk_lock, nops + 1)} :
         /\ l.ok
         /\ lock_file' = l.lf
         /\ installed_plugins' = LockNames(l.lf.plugins)
         /\ last' = [NoLast EXCEPT !.op = "load", !.load = l.how]
    /\ nops' = nops + 1
    /\ UNCHANGED <<plugin_files, disk_lock, fs_files, last_written>>

NextStore == StoreSave \/ StoreLoad

SpecStore == InitStore /\ [][NextStore]_vars

\* The same engine given spec strings of any shape (a ref after '@', no name,
\* a local path) in place of the plain owner/repo strings.
InstallAny == nops < MaxAnyOps /\ InstallFrom(AnyLists)

NextAny == InstallAny \/ Restart

SpecAny == Init /\ [][NextAny]_vars

----------------------------------------------------------------------------
(* Properties *)

\* The engine state the last operation started from.
Pre == CHOOSE st \in last.pre : TRUE

\* The last operation was `op`, and its report is there.
Examined(op) == last.op = op /\ last.pre # {}

AllNetOk == [i \in 1..MaxDesired |-> TRUE]

NoFault == <<0, 0>>

FetchFailed(fetched) == {fetched[i].name : i \in {j \in 1..Len(fetched) : ~fetched[j].ok}}

FetchedOk(fetched) == {fetched[i].name : i \in {j \in 1..Len(fetched) : fetched[j].ok}}

DiskNames == LockNames(LockFile_load(disk_lock, 0).lf.plugins)

\* C1: after an Install without force in which every fetch and every copy
\* succeeded, an immediately following Install of the same desired list has an
\* empty to-install set, fetches nothing and reports that there is nothing to do.
C1_InstallIdempotent ==
    (/\ Examined("install")
     /\ last.result = "Ok"
     /\ FetchFailed(last.ins.fetched) = {}
     /\ ~last.ins.copy_failed)
    => /\ diff(parse_plugin(last.args), lock_file.plugins) = <<>>
       /\ LET again == install(EngineState, last.args, AllNetOk, NoFault, InOrder)
          IN again.nothing_to_do /\ again.fetched = <<>>

\* C2: when Install returns from a batch in which some fetches failed (and no
\* copy did), every plugin of the batch whose fetch and copy succeeded is recorded
\* in the in-memory LockState under its own name and is in the persisted lock file.
C2_SuccessesRecordedDespiteFetchFailures ==
    (/\ Examined("install")
     /\ FetchFailed(last.ins.fetched) # {}
     /\ ~last.ins.copy_failed)
    => \A name \in FetchedOk(last.ins.fetched) :
         /\ name \in LockNames(lock_file.plugins)
         /\ name \in DiskNames

\* C3: after an Install, a plugin of the batch whose fetch or copy failed and which
\* was not locked before has no record in LockState, in memory or persisted, is not
\* in the installed-name set, and no "Installed" line was printed for it.
C3_FailedNeverRecorded ==
    Examined("install")
    => \A name \in (last.ins.failed \ last.ins.succeeded) \ LockNames(Pre.lf.plugins) :
         /\ name \notin LockNames(lock_file.plugins)
         /\ name \notin DiskNames
         /\ name \notin installed_plugins
         /\ name \notin SeqToSet(last.ins.printed)

\* C4: when the copy of one plugin's files fails during Install, Install still
\* returns success, every candidate of the batch has been processed, every plugin
\* whose fetch and copy succeeded is in LockState, and LockState has been persisted.
C4_CopyFailureIsolated ==
    (Examined("install") /\ last.ins.copy_failed)
    => /\ last.result = "Ok"
       /\ last.ins.processed = Len(last.ins.candidates)
       /\ (FetchedOk(last.ins.fetched) \ last.ins.failed) \subseteq LockNames(lock_file.plugins)
       /\ last.saves = 1
       /\ disk_lock = LockFile_save(lock_file)

\* C5: a plugin that was installed before an Update and whose re-fetch failed
\* during it is still installed afterwards, still in LockState, none of its
\* installed files has been deleted and its recorded file list is unchanged.
C5_UpdateFailureSafe ==
    Examined("update")
    => \A p \in Pre.ip \cap FetchFailed(last.ins.fetched) :
         /\ p \in installed_plugins
         /\ p \in LockNames(lock_file.plugins)
         /\ (p \in DOMAIN Pre.pf
               => /\ SeqToSet(Pre.pf[p]) \cap Pre.fs \subseteq fs_files
                  /\ p \in DOMAIN plugin_files
                  /\ plugin_files[p] = Pre.pf[p])

\* C6: Update with no names over a LockState of two installed plugins, all fetches
\* succeeding, fetches each of the two exactly once from the source its lock record
\* names, and afterwards both are installed, both are in LockState and the files
\* recorded for each are those a fresh install of it writes.
C6_UpdateAllReinstalls ==
    (/\ Examined("update")
     /\ last.args = <<>>
     /\ Cardinality(Pre.ip) = 2
     /\ LockNames(Pre.lf.plugins) = Pre.ip
     /\ Len(Pre.lf.plugins) = 2
     /\ last.result = "Ok"
     /\ FetchFailed(last.ins.fetched) = {})
    => \A k \in 1..Len(Pre.lf.plugins) :
         LET p == Pre.lf.plugins[k] IN
         /\ Cardinality({i \in 1..Len(last.ins.fetched) :
                           /\ last.ins.fetched[i].name = p.name
                           /\ last.ins.fetched[i].source = p.source}) = 1
         /\ p.name \in installed_plugins
         /\ p.name \in LockNames(lock_file.plugins)
         /\ p.name \in DOMAIN plugin_files
         /\ plugin_files[p.name] = InstallList(RemoteTree(p.source))

\* C7: a Remove of the single installed plugin p whose last install wrote the files
\* W, all still present, deletes exactly W, and afterwards p has no record in
\* LockState and is not in the installed-name set.
C7_RemoveDeletesExactlyInstalledFiles ==
    (/\ Examined("remove")
     /\ last.result = "Ok"
     /\ Len(last.args) = 1
     /\ last.args[1] \in Pre.ip
     /\ last.args[1] \in DOMAIN Pre.lw
     /\ Pre.lw[last.args[1]] \subseteq Pre.fs)
    => /\ last.rm.deleted = Pre.lw[last.args[1]]
       /\ fs_files = Pre.fs \ Pre.lw[last.args[1]]
       /\ last.args[1] \notin LockNames(lock_file.plugins)
       /\ last.args[1] \notin installed_plugins

\* C8: a Remove that processed its whole batch and removed a plugin has written the
\* lock file exactly once, and a process started afterwards loads a LockState and
\* an installed-name set without any plugin that Remove removed.
C8_RemovePersists ==
    (Examined("remove") /\ last.result = "Ok" /\ last.rm.removed # <<>>)
    => /\ last.saves = 1
       /\ disk_lock = LockFile_save(lock_file)
       /\ LET next == new(disk_lock, fs_files, last_written, nops).st
          IN /\ LockNames(next.lf.plugins) \cap SeqToSet(last.rm.removed) = {}
             /\ next.ip \cap SeqToSet(last.rm.removed) = {}

\* The files Remove may delete for the installed names of its batch.
RecordedFiles(st, plugins) ==
    UNION {SeqToSet(st.pf[n]) : n \in (SeqToSet(plugins) \cap st.ip) \cap DOMAIN st.pf}

C10_InstalledFilesBookkeeping ==
    \A i \in 1..Len(lock_file.plugins) :
      LET p == lock_file.plugins[i] IN
      /\ p.name \in DOMAIN last_written
      /\ p.installed_files = Some(last_written[p.name])

\* A spec string without a name: the part before the first '@' is empty or ends
\* with '/'.
Nameless(spec) ==
    LET left == Split(spec, "@")[1]
    IN left = <<>> \/ left[Len(left)] = "/"

\* C11: an Install given a spec string without a name fails, has started no fetch,
\* has made no Plugin record with an empty name and has left LockState, in memory
\* and on disk, as it was.
C11_NamelessSpecRejected ==
    (Examined("install") /\ \E i \in 1..Len(last.args) : Nameless(last.args[i]))
    => /\ last.result = "Err"
       /\ last.ins.fetched = <<>>
       /\ \A i \in 1..Len(last.ins.candidates) : last.ins.candidates[i].name # <<>>
       /\ lock_file = Pre.lf
       /\ disk_lock = Pre.disk


\* The owner/repo strings, over a few owners and repository names.
OwnerRepos ==
    {owner \o <<"/">> \o repo : owner \in {<<"o">>, <<"u", "v">>},
                                 repo \in {<<"a">>, <<"b">>, <<"c">>, <<"f", "x">>}}

RepoOf(s) == LET segs == Split(s, "/") IN segs[Len(segs)]

AtHEAD(s) == s \o <<"@", "H", "E", "A", "D">>

\* C12: for every owner/repo string s, parse_plugin gives s and s@HEAD the name
\* "repo" and the same source, so the two records are equal under Plugin equality
\* (as are the two records of From<&str>); and in every state the reconciler
\* answers the same for both spellings: once the plugin is in LockState under one
\* of them, an Install of the other has nothing to install and fetches nothing.
C12_IdentityStable ==
    \A s \in OwnerRepos :
      LET p == ParseOne(s)
          q == ParseOne(AtHEAD(s))
      IN /\ p.name = RepoOf(s)
         /\ q.name = RepoOf(s)
         /\ p.source = q.source
         /\ PluginEq(p, q) /\ PluginEq(q, p)
         /\ Plugin_from(s).source = Plugin_from(AtHEAD(s)).source
         /\ PluginEq(Plugin_from(s), Plugin_from(AtHEAD(s)))
         /\ diff(parse_plugin(<<s>>), lock_file.plugins)
              = diff(parse_plugin(<<AtHEAD(s)>>), lock_file.plugins)
         /\ (Contains(lock_file.plugins, p) \/ Contains(lock_file.plugins, q)
               => \A t \in {s, AtHEAD(s)} :
                    LET again == install(EngineState, <<t>>, AllNetOk, NoFault, InOrder)
                    IN again.nothing_to_do /\ again.fetched = <<>>)

\* An Install of o/a@HEAD has put the plugin into LockState, and the reconciler
\* finds nothing to install for o/a.
C12_Witness ==
    /\ Examined("install")
    /\ last.args = <<SpecAHead>>
    /\ last.ins.succeeded = {RepoOf(SpecA)}
    /\ Contains(lock_file.plugins, ParseOne(SpecAHead))
    /\ ~Contains(Pre.lf.plugins, ParseOne(SpecA))
    /\ diff(parse_plugin(<<SpecA>>), lock_file.plugins) = <<>>


\* A lock file that is present and cannot be turned into a LockState.
Damaged(disk) == disk # {} /\ \A c \in disk : c.kind # "lock"

\* C13: a start of the engine gets the fresh empty LockState (version "1.0", no
\* plugins) only when there is no lock file, and fails when the file is present
\* but cannot be turned into a LockState; hence no operation runs over such a
\* file: none fetches, deletes or saves, and the file is not overwritten.
C13_LoadNeverDiscardsState ==
    /\ last.op = "new"
         => /\ (last.load = "default"
                  => /\ disk_lock = {}
                     /\ lock_file.version = "1.0"
                     /\ lock_file.plugins = <<>>)
            /\ (Damaged(disk_lock) => last.result = "Err")
    /\ ((\E op \in {"install", "remove", "update"} : Examined(op)) /\ Damaged(Pre.disk)
          => /\ last.ins.fetched = <<>>
             /\ last.rm.deleted = {}
             /\ last.saves = 0
             /\ disk_lock = Pre.disk)


\* The arrays of installed files written in a lock file.
WrittenFileLists(disk) ==
    UNION {{c.doc.plugins[i]["installed_files"] :
              i \in {j \in 1..Len(c.doc.plugins) :
                       "installed_files" \in DOMAIN c.doc.plugins[j]}} : c \in disk}

C15_LocalPathSource ==
    Examined("install")
    => \A i \in {j \in 1..Len(last.args) : last.args[j] \in LocalDirs} :
         LET path == last.args[i]
             name == RepoOf(path)
         IN /\ ParseOne(path).name = name
            /\ \A k \in {j \in 1..Len(last.ins.fetched) :
                            last.ins.fetched[j].name = name} :
                 /\ last.ins.fetched[k].method = "copy"
                 /\ last.ins.fetched[k].ok => last.ins.fetched[k].tree = LocalTree(path)
            /\ (name \in last.ins.succeeded
                  => \E r \in 1..Len(lock_file.plugins) :
                       /\ lock_file.plugins[r].name = name
                       /\ lock_file.plugins[r].source = path)


\* The positions of the events of the given kinds in the last install.
EventsAt(kinds) ==
    {k \in 1..Len(last.ins.events) : last.ins.events[k].kind \in kinds}

\* C16: in an Install, every merge (a name put into the installed-name set, a
\* record pushed onto LockState) comes after the completion of every fetch and of
\* every install attempt of the batch, and the lock file is written at most once,
\* after all merges.
C16_MergeAfterAllAttempts ==
    Examined("install")
    => /\ \A m \in EventsAt({"insert", "push"}), a \in EventsAt({"fetch", "install"}) :
            a < m
       /\ Cardinality(EventsAt({"save"})) <= 1
       /\ last.saves <= 1
       /\ \A w \in EventsAt({"save"}), m \in EventsAt({"insert", "push"}) : m < w


\* C17: in an Install, every fetch has completed before the engine state is first
\* written; every name put into the installed-name set, every record pushed onto
\* LockState and every change of the installed-files bookkeeping is for a plugin
\* of the batch whose fetch and copy both succeeded; and the batch with the same
\* outcomes per plugin ends in the same LockState, installed-name set and
\* bookkeeping whatever the order in which the fetches complete.
C17_SingleWriter ==
    Examined("install")
    => /\ \A f \in EventsAt({"fetch"}), m \in EventsAt({"install", "insert", "push"}) :
            f < m
       /\ \A m \in EventsAt({"insert", "push"}) :
            last.ins.events[m].name \in last.ins.succeeded
       /\ \A n \in DOMAIN plugin_files :
            (n \notin DOMAIN Pre.pf \/ plugin_files[n] # Pre.pf[n])
              => n \in last.ins.succeeded
       /\ \A order \in Orders(1..Len(last.ins.candidates)) :
            LET other == install(Pre, last.args, last.net, last.fault, order)
            IN /\ other.st.lf = lock_file
               /\ other.st.ip = installed_plugins
               /\ other.st.pf = plugin_files
               /\ other.st.disk = disk_lock


\* The install of the last operation ran, over these desired names or strings.
InstallRan ==
    \/ Examined("install")
    \/ Examined("update") /\ last.to_update # <<>> /\ ~last.rm.failed

Desired == parse_plugin(IF last.op = "install" THEN last.args ELSE last.to_update)

\* C18: in an install, the plugins to install are exactly the desired plugins
\* that are equal, under Plugin equality, to no record of LockState, in the order
\* of the desired list: none of them is locked, no desired plugin that is not
\* locked is left out, they are the plugins fetched, and an install that finds
\* none leaves LockState, the lock file and the installation tree as they were.
C18_ReconcilerSetDifference ==
    InstallRan
    => LET locked == Pre.lf.plugins
           expected == {d \in SeqToSet(Desired) :
                          \A r \in 1..Len(locked) : ~PluginEq(d, locked[r])}
           isExpected(d) == d \in expected
       IN /\ SeqToSet(last.ins.candidates) = expected
          /\ last.ins.candidates = SelectSeq(Desired, isExpected)
          /\ \A i \in 1..Len(last.ins.candidates) :
               last.ins.candidates[i].name \notin LockNames(locked)
          /\ \A i \in 1..Len(Desired) :
               Desired[i].name \notin LockNames(locked)
                 => Desired[i] \in SeqToSet(last.ins.candidates)
          /\ Len(last.ins.fetched) = Len(last.ins.candidates)
          /\ \A i \in 1..Len(last.ins.fetched) :
               /\ last.ins.fetched[i].name = last.ins.candidates[i].name
               /\ last.ins.fetched[i].source = last.ins.candidates[i].source
          /\ (last.ins.nothing_to_do <=> expected = {})
          /\ (last.ins.nothing_to_do /\ last.op = "install"
                => /\ lock_file = Pre.lf
                   /\ disk_lock = Pre.disk
                   /\ fs_files = Pre.fs
                   /\ installed_plugins = Pre.ip)

\* An Install of three desired plugins of which one was locked had the other two
\* to install.
C18_Witness ==
    /\ Examined("install")
    /\ Len(last.args) = 3
    /\ Len(Pre.lf.plugins) = 1
    /\ Len(last.ins.candidates) = 2
    /\ Len(last.ins.fetched) = 2
    /\ Pre.lf.plugins[1].name = Desired[2].name


\* C19: in an Update given names, the update set is the given names that are
\* installed, in the order given.  A given name that is not installed is not
\* removed, not reported, not fetched, and is neither installed nor in LockState
\* afterwards unless it was before; the Update does and returns what an Update of
\* the installed names alone does.  When none of the names is installed, Update
\* returns success and has fetched, deleted, written and changed nothing.
C19_UpdateOnlyInstalled ==
    (Examined("update") /\ last.args # <<>>)
    => LET isInstalled(n) == n \in Pre.ip
           dropped == SeqToSet(last.args) \ Pre.ip
       IN /\ last.to_update = SelectSeq(last.args, isInstalled)
          /\ \A n \in dropped :
               /\ n \notin SeqToSet(last.rm.removed)
               /\ n \notin SeqToSet(last.rm.not_installed)
               /\ n \notin {last.ins.candidates[i].name :
                               i \in 1..Len(last.ins.candidates)}
               /\ n \notin {last.ins.fetched[i].name : i \in 1..Len(last.ins.fetched)}
               /\ n \notin installed_plugins
               /\ n \in LockNames(lock_file.plugins) => n \in LockNames(Pre.lf.plugins)
          /\ (last.to_update # <<>>
                => LET alone == update(Pre, last.to_update, <<>>, last.undeletable,
                                       last.net, last.fault, last.done)
                   IN /\ alone.st = EngineState
                      /\ alone.result = last.result)
          /\ (last.to_update = <<>>
                => /\ last.result = "Ok"
                   /\ last.ins.fetched = <<>>
                   /\ last.rm.deleted = {}
                   /\ last.saves = 0
                   /\ EngineState = Pre)

\* An Update was given an installed name and one that is not installed, and
\* removed the first.
C19_Witness ==
    /\ Examined("update")
    /\ Len(last.args) = 2
    /\ last.args[1] \notin Pre.ip
    /\ last.args[2] \in Pre.ip
    /\ last.to_update = <<last.args[2]>>
    /\ last.rm.removed = <<last.args[2]>>
    /\ last.rm.deleted # {}

\* An Update was given only names that are not installed.
C19_WitnessEmpty ==
    /\ Examined("update")
    /\ last.args # <<>>
    /\ last.to_update = <<>>
    /\ Pre.ip # {}


\* C20: in an Install, a plugin whose fetch succeeded and whose tree has none of
\* the component directories is installed: it is reported as installed, an empty
\* file list is recorded for it, the Install writes no file for it, and afterwards
\* it is in the installed-name set and has a record in LockState, whose
\* installed-file set is empty or absent.
C20_NoComponentStillInstalls ==
    Examined("install")
    => \A k \in {j \in 1..Len(last.ins.fetched) :
                    /\ last.ins.fetched[j].ok
                    /\ InstallList(last.ins.fetched[j].tree) = <<>>} :
         LET name == last.ins.fetched[k].name
         IN /\ name \in last.ins.succeeded
            /\ name \in SeqToSet(last.ins.printed)
            /\ name \in DOMAIN plugin_files
            /\ plugin_files[name] = <<>>
            /\ name \in installed_plugins
            /\ \E r \in 1..Len(lock_file.plugins) :
                 /\ lock_file.plugins[r].name = name
                 /\ lock_file.plugins[r].installed_files \in {None, Some({})}
            /\ fs_files \ Pre.fs
                 \subseteq UNION {SeqToSet(InstallList(last.ins.fetched[j].tree)) :
                                    j \in 1..Len(last.ins.fetched) \ {k}}


\* C21: after every completed Install, Remove and Update, the installed-name set
\* is the set of the names of the plugin records of the in-memory LockState.
C21_InstalledNamesAreLockNames ==
    last.op \in {"install", "remove", "update"}
    => installed_plugins = LockNames(lock_file.plugins)

\* C22: a Remove of the one installed plugin p deletes no file that is recorded
\* as installed for another installed plugin q, so that every recorded file of q
\* that was there before is still there afterwards.
C22_RemoveSparesOtherPluginsFiles ==
    (/\ Examined("remove")
     /\ Len(last.args) = 1
     /\ last.args[1] \in Pre.ip)
    => \A q \in (Pre.ip \ {last.args[1]}) \cap DOMAIN Pre.pf :
         /\ last.rm.deleted \cap SeqToSet(Pre.pf[q]) = {}
         /\ SeqToSet(Pre.pf[q]) \cap Pre.fs \subseteq fs_files
         /\ q \in DOMAIN plugin_files
         /\ plugin_files[q] = Pre.pf[q]

====
